---- MODULE Spec2Model ----
(***************************************************************************)
(* Slide_Maker backend (src/backend/app.py): the layout matcher            *)
(* find_layout_by_type and the /api/add-slide handler add_slide, as a      *)
(* state machine, and the mass-update tool (backend_Mass_Update/utils):    *)
(* load_replacements and update_ppt_text.  Text is modelled as sequences   *)
(* of one-character strings so that lower(), strip(), split() and          *)
(* substring tests are computed, not assumed.                              *)
(***************************************************************************)
EXTENDS Integers, Sequences, FiniteSets, TLC

VARIABLES
    pc,             \* position in the running operation
    slide_layouts,  \* prs.slide_masters[0].slide_layouts of the uploaded file
    sldIdLst,       \* prs.slides._sldIdLst: the deck's slide order (slide ids)
    layout_type,    \* local of add_slide / argument of find_layout_by_type
    title,          \* local of add_slide (stripped form field)
    text,           \* local of add_slide (stripped form field)
    text2,          \* local of add_slide (stripped form field)
    image,          \* local of add_slide: request.files.get('image')
    position,       \* local of add_slide
    form_position,  \* request.form['position'] as the client sent it
    slide_layout,   \* the matched layout: 1-based index in slide_layouts, 0 = None
    total_slides,   \* local of add_slide
    new_slide,      \* id of the slide created by prs.slides.add_slide, 0 = none yet
    shapes,         \* new_slide's shape tree (placeholders, textboxes, pictures)
    background,     \* new_slide.background fill
    slides,         \* local of the reposition step: the reordered id list
    log,            \* diagnostics printed so far ("! ..." lines)
    faults,         \* number of library calls that have raised so far
    response,       \* what the handler returned
    config_file,    \* load_replacements: the file at config_path
    idx,            \* load_replacements: line number; update_ppt_text: paragraph number
    replacements,   \* the mapping, as its items in insertion order
    malformed,      \* load_replacements: line numbers reported as malformed
    duplicates,     \* load_replacements: (line number, key) of each duplicate warning
    ppt_file,       \* update_ppt_text: the paragraphs of the file at ppt_path when opened
    prs,            \* update_ppt_text: the paragraphs of the open presentation
    updated,        \* update_ppt_text: nonlocal flag
    saved,          \* update_ppt_text: prs.save(ppt_path) was carried out
    result          \* how load_replacements / update_ppt_text ended

massUpdateVars ==
    <<config_file, idx, replacements, malformed, duplicates, ppt_file, prs, updated,
      saved, result>>

addSlideVars ==
    <<slide_layouts, sldIdLst, layout_type, title, text, text2, image, position,
      form_position, slide_layout, total_slides, new_slide, shapes, background, slides,
      log, faults, response>>

vars == <<pc, slide_layouts, sldIdLst, layout_type, title, text, text2, image,
          position, form_position, slide_layout, total_slides, new_slide, shapes, background,
          slides, log, faults, response, massUpdateVars>>

(***************************************************************************)
(* Bounds of the model.                                                    *)
(***************************************************************************)
MaxLayouts == 2     \* longest template handed to the matcher on its own
MaxSlides == 2      \* largest deck before the request
MaxFaults == 2      \* most library calls that raise within one request
MaxNative == 12     \* largest native width and height of an image sized on its own
MaxLines == 3       \* most lines of a configuration file
MaxParagraphs == 2  \* most paragraphs of a deck given to update_ppt_text

(***************************************************************************)
(* Python string primitives.                                               *)
(***************************************************************************)
UpperToLower ==
    [c \in {"A", "B", "C", "D", "E", "F", "G", "H", "I", "J", "K", "L", "M",
            "N", "O", "P", "Q", "R", "S", "T", "U", "V", "W", "X", "Y", "Z"} |->
        CASE c = "A" -> "a" [] c = "B" -> "b" [] c = "C" -> "c" [] c = "D" -> "d"
          [] c = "E" -> "e" [] c = "F" -> "f" [] c = "G" -> "g" [] c = "H" -> "h"
          [] c = "I" -> "i" [] c = "J" -> "j" [] c = "K" -> "k" [] c = "L" -> "l"
          [] c = "M" -> "m" [] c = "N" -> "n" [] c = "O" -> "o" [] c = "P" -> "p"
          [] c = "Q" -> "q" [] c = "R" -> "r" [] c = "S" -> "s" [] c = "T" -> "t"
          [] c = "U" -> "u" [] c = "V" -> "v" [] c = "W" -> "w" [] c = "X" -> "x"
          [] c = "Y" -> "y" [] c = "Z" -> "z"]

\* str.lower()
lower(s) ==
    [i \in 1..Len(s) |-> IF s[i] \in DOMAIN UpperToLower THEN UpperToLower[s[i]] ELSE s[i]]

\* `sub in s` on strings
contains(sub, s) ==
    \E k \in 0..(Len(s) - Len(sub)) : \A j \in 1..Len(sub) : s[k + j] = sub[j]

Whitespace == {" ", "\t", "\n"}

RECURSIVE lstrip(_)
lstrip(s) == IF s # <<>> /\ Head(s) \in Whitespace THEN lstrip(Tail(s)) ELSE s

RECURSIVE rstrip(_)
rstrip(s) ==
    IF s # <<>> /\ s[Len(s)] \in Whitespace THEN rstrip(SubSeq(s, 1, Len(s) - 1)) ELSE s

\* str.strip()
strip(s) == rstrip(lstrip(s))

(***************************************************************************)
(* PREDEFINED_LAYOUTS (app.py:22-48).                                      *)
(***************************************************************************)
LayoutTypes == {"title_content", "title_two_content", "title_image_content", "title_image"}

PREDEFINED_LAYOUTS ==
    [k \in LayoutTypes |->
        CASE k = "title_content" ->
               [name |-> <<"T", "i", "t", "l", "e", " ", "a", "n", "d", " ",
                           "C", "o", "n", "t", "e", "n", "t">>,
                keywords |-> << <<"t", "i", "t", "l", "e">>,
                                <<"c", "o", "n", "t", "e", "n", "t">>,
                                <<"b", "o", "d", "y">>,
                                <<"t", "e", "x", "t">>,
                                <<"o", "n", "l", "y">> >>,
                has_image |-> FALSE,
                content_boxes |-> 1]
          [] k = "title_two_content" ->
               [name |-> <<"T", "i", "t", "l", "e", " ", "a", "n", "d", " ",
                           "T", "w", "o", " ", "C", "o", "n", "t", "e", "n", "t">>,
                keywords |-> << <<"t", "w", "o">>,
                                <<"c", "o", "m", "p", "a", "r", "i", "s", "o", "n">>,
                                <<"c", "o", "l", "u", "m", "n", "s">>,
                                <<"d", "i", "v", "i", "d", "e", "d">> >>,
                has_image |-> FALSE,
                content_boxes |-> 2]
          [] k = "title_image_content" ->
               [name |-> <<"T", "i", "t", "l", "e", " ", "I", "m", "a", "g", "e", " ",
                           "a", "n", "d", " ", "C", "o", "n", "t", "e", "n", "t">>,
                keywords |-> << <<"p", "i", "c", "t", "u", "r", "e">>,
                                <<"i", "m", "a", "g", "e">>,
                                <<"c", "o", "n", "t", "e", "n", "t">>,
                                <<"p", "h", "o", "t", "o">>,
                                <<"t", "e", "x", "t">> >>,
                has_image |-> TRUE,
                content_boxes |-> 1]
          [] k = "title_image" ->
               [name |-> <<"T", "i", "t", "l", "e", " ", "a", "n", "d", " ",
                           "I", "m", "a", "g", "e">>,
                keywords |-> << <<"p", "i", "c", "t", "u", "r", "e">>,
                                <<"i", "m", "a", "g", "e">>,
                                <<"p", "h", "o", "t", "o">>,
                                <<"b", "l", "a", "n", "k">> >>,
                has_image |-> TRUE,
                content_boxes |-> 0]]

\* exclude_patterns (app.py:83)
exclude_patterns ==
    << <<"m", "a", "n", "g", "o">>,
       <<"c", "o", "v", "e", "r">>,
       <<"b", "r", "a", "n", "d", "e", "d">>,
       <<"a", "n", "v", "i", "l">>,
       <<"t", "h", "a", "n", "k">>,
       <<"s", "e", "c", "t", "i", "o", "n">>,
       <<"d", "i", "v", "i", "d", "e", "r">> >>

\* any(pattern in layout_name_lower for pattern in exclude_patterns)
is_excluded(layout_name_lower) ==
    \E p \in 1..Len(exclude_patterns) : contains(exclude_patterns[p], layout_name_lower)

(***************************************************************************)
(* find_layout_by_type (app.py:70-206).  A layout is a record              *)
(* [name, placeholders]; a placeholder is [type, left, top, width, height] *)
(* with type in PlaceholderTypes.  "UNREADABLE" is a placeholder whose     *)
(* placeholder_format raises.  The result is the layout's 1-based index in *)
(* slide_layouts (Python index + 1), 0 for None.                           *)
(***************************************************************************)
PlaceholderTypes == {"TITLE", "BODY", "OBJECT", "PICTURE", "OTHER", "UNREADABLE"}

BodyTypes == {"BODY", "OBJECT"}

\* First try: exact name match, excluding branded layouts (app.py:85-95)
RECURSIVE exact_match(_, _, _)
exact_match(layouts, layout_config, i) ==
    IF i > Len(layouts) THEN 0
    ELSE LET layout_name_lower == lower(layouts[i].name) IN
         IF is_excluded(layout_name_lower)
         THEN exact_match(layouts, layout_config, i + 1)
         ELSE IF lower(layout_config.name) = layout_name_lower
              THEN i
              ELSE exact_match(layouts, layout_config, i + 1)

\* the inner keyword loop (app.py:108-113)
keyword_score(keywords, layout_name_lower) ==
    Cardinality({k \in 1..Len(keywords) : contains(keywords[k], layout_name_lower)})

\* the keyword loop with `score >= best_score`: on a tie the last layout wins
RECURSIVE keyword_match_last_tie(_, _, _, _, _)
keyword_match_last_tie(layouts, keywords, i, best_match, best_score) ==
    IF i > Len(layouts)
    THEN IF best_match # 0 /\ best_score > 0 THEN best_match ELSE 0
    ELSE LET layout_name_lower == lower(layouts[i].name)
             score == keyword_score(keywords, layout_name_lower)
         IN  IF is_excluded(layout_name_lower)
             THEN keyword_match_last_tie(layouts, keywords, i + 1, best_match, best_score)
             ELSE IF score >= best_score
                  THEN keyword_match_last_tie(layouts, keywords, i + 1, i, score)
                  ELSE keyword_match_last_tie(layouts, keywords, i + 1, best_match,
                                              best_score)

\* Second try: keyword match, excluding branded layouts (app.py:97-121)
RECURSIVE keyword_match(_, _, _, _, _)
keyword_match(layouts, keywords, i, best_match, best_score) ==
    IF i > Len(layouts)
    THEN IF best_match # 0 /\ best_score > 0 THEN best_match ELSE 0
    ELSE LET layout_name_lower == lower(layouts[i].name)
             score == keyword_score(keywords, layout_name_lower)
         IN  IF is_excluded(layout_name_lower)
             THEN keyword_match(layouts, keywords, i + 1, best_match, best_score)
             ELSE IF score > best_score
                  THEN keyword_match(layouts, keywords, i + 1, i, score)
                  ELSE keyword_match(layouts, keywords, i + 1, best_match, best_score)

\* the placeholder scan of the structural tier (app.py:134-150)
has_title(layout) == \E k \in 1..Len(layout.placeholders) : layout.placeholders[k].type = "TITLE"

body_count(layout) ==
    Cardinality({k \in 1..Len(layout.placeholders) : layout.placeholders[k].type \in BodyTypes})

has_picture(layout) ==
    \E k \in 1..Len(layout.placeholders) : layout.placeholders[k].type = "PICTURE"

placeholder_count(layout) == Len(layout.placeholders)

\* structure_score with the sign of the placeholder count flipped, so that
\* busier layouts score higher
structure_score_more_is_better(type, layout) ==
    CASE type = "title_content" ->
           IF has_title(layout) /\ body_count(layout) >= 1 /\ ~has_picture(layout)
           THEN 100 + placeholder_count(layout) ELSE 0
      [] type = "title_two_content" ->
           IF has_title(layout) /\ body_count(layout) >= 2
           THEN 100 + placeholder_count(layout) ELSE 0
      [] type = "title_image_content" ->
           IF has_title(layout) /\ body_count(layout) >= 1 /\ has_picture(layout)
           THEN 100 + placeholder_count(layout) ELSE 0
      [] type = "title_image" ->
           IF has_title(layout) /\ has_picture(layout) /\ body_count(layout) = 0
           THEN 200 + placeholder_count(layout)
           ELSE IF has_title(layout) /\ has_picture(layout)
                THEN 50 + placeholder_count(layout) ELSE 0
      [] OTHER -> 0

\* the per-type scoring rule (app.py:152-171)
structure_score(type, layout) ==
    CASE type = "title_content" ->
           IF has_title(layout) /\ body_count(layout) >= 1 /\ ~has_picture(layout)
           THEN 100 - placeholder_count(layout) ELSE 0
      [] type = "title_two_content" ->
           IF has_title(layout) /\ body_count(layout) >= 2
           THEN 100 - placeholder_count(layout) ELSE 0
      [] type = "title_image_content" ->
           IF has_title(layout) /\ body_count(layout) >= 1 /\ has_picture(layout)
           THEN 100 - placeholder_count(layout) ELSE 0
      [] type = "title_image" ->
           IF has_title(layout) /\ has_picture(layout) /\ body_count(layout) = 0
           THEN 200 - placeholder_count(layout)
           ELSE IF has_title(layout) /\ has_picture(layout)
                THEN 50 - placeholder_count(layout) ELSE 0
      [] OTHER -> 0

\* Third try: structure-based matching, excluding branded layouts (app.py:123-179)
RECURSIVE structure_match(_, _, _, _, _)
structure_match(layouts, type, i, best_structure_match, best_structure_score) ==
    IF i > Len(layouts)
    THEN best_structure_match
    ELSE LET sc == structure_score(type, layouts[i])
         IN  IF is_excluded(lower(layouts[i].name))
             THEN structure_match(layouts, type, i + 1,
                                  best_structure_match, best_structure_score)
             ELSE IF sc > best_structure_score
                  THEN structure_match(layouts, type, i + 1, i, sc)
                  ELSE structure_match(layouts, type, i + 1,
                                       best_structure_match, best_structure_score)

\* Fallback: first layout with a title and a body placeholder (app.py:181-199)
\* the generic fallback asking for a title only
RECURSIVE fallback_match_title_only(_, _)
fallback_match_title_only(layouts, i) ==
    IF i > Len(layouts) THEN 0
    ELSE IF has_title(layouts[i])
         THEN i
         ELSE fallback_match_title_only(layouts, i + 1)

RECURSIVE fallback_match(_, _)
fallback_match(layouts, i) ==
    IF i > Len(layouts) THEN 0
    ELSE IF has_title(layouts[i]) /\ body_count(layouts[i]) >= 1
         THEN i
         ELSE fallback_match(layouts, i + 1)

\* ultimate_fallback with the single-layout case lost: None unless two layouts exist
ultimate_fallback_needs_two(layouts) ==
    IF Len(layouts) > 1 THEN 2 ELSE 0

\* Ultimate fallback (app.py:201-206): slide_layouts[1], else slide_layouts[0], else None
ultimate_fallback(layouts) ==
    IF Len(layouts) > 1 THEN 2 ELSE IF Len(layouts) > 0 THEN 1 ELSE 0

\* find_layout_by_type with the keyword tier tried before the exact-name tier
find_layout_by_type_keyword_first(slide_master, type) ==
    IF type \notin DOMAIN PREDEFINED_LAYOUTS
    THEN 0
    ELSE LET layout_config == PREDEFINED_LAYOUTS[type]
             t1 == exact_match(slide_master, layout_config, 1)
             t2 == keyword_match(slide_master, layout_config.keywords, 1, 0, 0)
             t3 == structure_match(slide_master, type, 1, 0, 0)
             t4 == fallback_match(slide_master, 1)
         IN  IF t2 # 0 THEN t2
             ELSE IF t1 # 0 THEN t1
             ELSE IF t3 # 0 THEN t3
             ELSE IF t4 # 0 THEN t4
             ELSE ultimate_fallback(slide_master)

find_layout_by_type(slide_master, type) ==
    IF type \notin DOMAIN PREDEFINED_LAYOUTS
    THEN 0
    ELSE LET layout_config == PREDEFINED_LAYOUTS[type]
             t1 == exact_match(slide_master, layout_config, 1)
             t2 == keyword_match(slide_master, layout_config.keywords, 1, 0, 0)
             t3 == structure_match(slide_master, type, 1, 0, 0)
             t4 == fallback_match(slide_master, 1)
         IN  IF t1 # 0 THEN t1
             ELSE IF t2 # 0 THEN t2
             ELSE IF t3 # 0 THEN t3
             ELSE IF t4 # 0 THEN t4
             ELSE ultimate_fallback(slide_master)

(***************************************************************************)
(* Lengths.  pptx.util.Inches(x) is int(x * 914400) EMU; every length the  *)
(* code uses is a multiple of 0.1 in, so Inches takes tenths of an inch.   *)
(***************************************************************************)
Inches(tenths) == tenths * 91440

Ph(type, left, top, width, height) ==
    [type |-> type, left |-> Inches(left), top |-> Inches(top),
     width |-> Inches(width), height |-> Inches(height)]

(***************************************************************************)
(* The layouts the uploaded templates are built from: exact names, an      *)
(* upper-case name, excluded (branded) names, keyword names, opaque names, *)
(* and the placeholder compositions the tiers and the composer tell apart. *)
(***************************************************************************)
L_TitleAndContent ==
    [name |-> <<"T", "i", "t", "l", "e", " ", "a", "n", "d", " ", "C", "o",
              "n", "t", "e", "n", "t">>,
     placeholders |-> <<Ph("TITLE", 5, 3, 90, 12),
                        Ph("BODY", 5, 18, 90, 50)>>]

L_MangoCover ==
    [name |-> <<"M", "a", "n", "g", "o", " ", "C", "o", "v", "e", "r">>,
     placeholders |-> <<Ph("TITLE", 5, 20, 90, 15),
                        Ph("BODY", 5, 40, 90, 20)>>]

L_TitleAndTwoContent ==
    [name |-> <<"T", "i", "t", "l", "e", " ", "a", "n", "d", " ", "T", "w",
              "o", " ", "C", "o", "n", "t", "e", "n", "t">>,
     placeholders |-> <<Ph("TITLE", 5, 3, 90, 12),
                        Ph("BODY", 5, 18, 44, 50),
                        Ph("OBJECT", 51, 18, 44, 50)>>]

L_TitleAndImage ==
    [name |-> <<"T", "i", "t", "l", "e", " ", "a", "n", "d", " ", "I", "m",
              "a", "g", "e">>,
     placeholders |-> <<Ph("TITLE", 5, 3, 90, 12),
                        Ph("PICTURE", 10, 18, 80, 50)>>]

L_TitleImageAndContentUpper ==
    [name |-> <<"T", "I", "T", "L", "E", " ", "I", "M", "A", "G", "E", " ",
              "A", "N", "D", " ", "C", "O", "N", "T", "E", "N", "T">>,
     placeholders |-> <<Ph("TITLE", 5, 3, 90, 12),
                        Ph("PICTURE", 51, 18, 44, 50),
                        Ph("BODY", 5, 18, 44, 50)>>]

L_Custom ==
    [name |-> <<"C", "u", "s", "t", "o", "m", " ", "L", "a", "y", "o", "u",
              "t">>,
     placeholders |-> <<Ph("TITLE", 5, 3, 90, 12),
                        Ph("PICTURE", 5, 18, 60, 50),
                        Ph("OTHER", 5, 70, 30, 4),
                        Ph("OTHER", 65, 70, 30, 4)>>]

L_Layout2 ==
    [name |-> <<"L", "a", "y", "o", "u", "t", " ", "2">>,
     placeholders |-> <<Ph("TITLE", 5, 3, 90, 12),
                        Ph("PICTURE", 5, 18, 40, 40),
                        Ph("BODY", 50, 18, 45, 40)>>]

L_Blank ==
    [name |-> <<"B", "l", "a", "n", "k">>,
     placeholders |-> <<>>]

L_SectionHeader ==
    [name |-> <<"S", "e", "c", "t", "i", "o", "n", " ", "H", "e", "a", "d",
              "e", "r">>,
     placeholders |-> <<Ph("TITLE", 5, 30, 90, 15)>>]

L_Layout3 ==
    [name |-> <<"L", "a", "y", "o", "u", "t", " ", "3">>,
     placeholders |-> <<Ph("TITLE", 5, 3, 90, 12),
                        Ph("UNREADABLE", 5, 70, 30, 4),
                        Ph("BODY", 5, 18, 90, 50)>>]

L_Comparison ==
    [name |-> <<"C", "o", "m", "p", "a", "r", "i", "s", "o", "n">>,
     placeholders |-> <<Ph("TITLE", 5, 3, 90, 12),
                        Ph("BODY", 5, 18, 90, 50)>>]

L_Layout5 ==
    [name |-> <<"L", "a", "y", "o", "u", "t", " ", "5">>,
     placeholders |-> <<Ph("BODY", 5, 5, 44, 60),
                        Ph("BODY", 51, 5, 44, 60)>>]

L_PictureWithCaption ==
    [name |-> <<"P", "i", "c", "t", "u", "r", "e", " ", "w", "i", "t", "h",
              " ", "C", "a", "p", "t", "i", "o", "n">>,
     placeholders |-> <<Ph("PICTURE", 5, 5, 44, 50),
                        Ph("OTHER", 5, 57, 90, 8),
                        Ph("PICTURE", 51, 5, 44, 50)>>]

LayoutPool ==
    {L_TitleAndContent,
     L_MangoCover,
     L_TitleAndTwoContent,
     L_TitleAndImage,
     L_TitleImageAndContentUpper,
     L_Custom,
     L_Layout2,
     L_Blank,
     L_SectionHeader,
     L_Layout3,
     L_Comparison,
     L_Layout5,
     L_PictureWithCaption}

(***************************************************************************)
(* State.                                                                  *)
(***************************************************************************)
\* all templates of at most n layouts over LayoutPool
RECURSIVE TemplatesUpTo(_)
TemplatesUpTo(n) ==
    IF n = 0 THEN {<<>>}
    ELSE LET shorter == TemplatesUpTo(n - 1)
         IN  shorter \cup {Append(t, l) : t \in shorter, l \in LayoutPool}

\* the templates of the decks uploaded to /api/add-slide
UploadedTemplates ==
    {<<>>,
     <<L_TitleAndContent, L_MangoCover>>,
     <<L_TitleAndTwoContent>>,
     <<L_Comparison>>,
     <<L_TitleAndImage>>,
     <<L_Layout2>>,
     <<L_Blank>>,
     <<L_Layout3>>,
     <<L_Layout5>>,
     <<L_PictureWithCaption>>}

NoImage == [filename |-> <<>>, size |-> 0, width |-> 0, height |-> 0]

NoResponse == [status |-> 0, error |-> "", file |-> FALSE]

NoConfig == [exists |-> FALSE, lines |-> <<>>]

\* the mass-update tool is not running
MassUpdateIdle ==
    /\ config_file = NoConfig
    /\ idx = 0
    /\ replacements = <<>>
    /\ malformed = <<>>
    /\ duplicates = <<>>
    /\ ppt_file = <<>>
    /\ prs = <<>>
    /\ updated = FALSE
    /\ saved = FALSE
    /\ result = "none"

Locals ==
    /\ title = <<>>
    /\ text = <<>>
    /\ text2 = <<>>
    /\ image = NoImage
    /\ position = 0
    /\ form_position = 0
    /\ slide_layout = 0
    /\ total_slides = 0
    /\ new_slide = 0
    /\ shapes = <<>>
    /\ background = "inherited"
    /\ slides = <<>>
    /\ log = {}
    /\ faults = 0
    /\ response = NoResponse
    /\ MassUpdateIdle

\* a direct call find_layout_by_type(slide_master, layout_type)
InitResolve ==
    /\ pc = "resolve"
    /\ slide_layouts \in TemplatesUpTo(MaxLayouts)
    /\ layout_type \in LayoutTypes \cup {"unknown"}
    /\ sldIdLst = <<>>
    /\ Locals

\* a request to /api/add-slide about to be handled
InitAddSlide ==
    /\ pc = "start"
    /\ slide_layouts \in UploadedTemplates
    /\ layout_type = ""
    /\ sldIdLst \in {[k \in 1..n |-> k] : n \in 0..MaxSlides}
    /\ Locals

\* the images the right-side insertion is run on by itself: every native
\* width and height up to MaxNative
SizingImages ==
    {[filename |-> <<"a", ".", "p", "n", "g">>, size |-> 2048, width |-> w, height |-> h] :
        w \in 1..MaxNative, h \in 1..MaxNative}

\* the fallback insertion of app.py:545-566 about to run on a slide of its own
InitSizing ==
    /\ pc = "sizing"
    /\ slide_layouts = <<>>
    /\ layout_type = ""
    /\ sldIdLst = <<>>
    /\ title = <<>>
    /\ text = <<>>
    /\ text2 = <<>>
    /\ image \in SizingImages
    /\ position = 0
    /\ form_position = 0
    /\ slide_layout = 0
    /\ total_slides = 0
    /\ new_slide = 0
    /\ shapes = <<>>
    /\ background = "inherited"
    /\ slides = <<>>
    /\ log = {}
    /\ faults = 0
    /\ response = NoResponse
    /\ MassUpdateIdle

\* the /api/add-slide handler is not running
AddSlideIdle ==
    /\ slide_layouts = <<>>
    /\ layout_type = ""
    /\ sldIdLst = <<>>
    /\ title = <<>>
    /\ text = <<>>
    /\ text2 = <<>>
    /\ image = NoImage
    /\ position = 0
    /\ form_position = 0
    /\ slide_layout = 0
    /\ total_slides = 0
    /\ new_slide = 0
    /\ shapes = <<>>
    /\ background = "inherited"
    /\ slides = <<>>
    /\ log = {}
    /\ faults = 0
    /\ response = NoResponse

(***************************************************************************)
(* load_replacements (backend_Mass_Update/utils/config_loader.py).         *)
(***************************************************************************)
\* U+FEFF and U+200B as single characters: neither is whitespace for
\* str.strip() or for \s
BOM == "<U+FEFF>"

ZWSP == "<U+200B>"

\* open(config_path, encoding='utf-8-sig').read(), as logical lines: the
\* decoder drops one BOM at the very start of the file
utf_8_sig(file_lines) ==
    IF file_lines # <<>> /\ file_lines[1] # <<>> /\ Head(file_lines[1]) = BOM
    THEN [file_lines EXCEPT ![1] = Tail(@)]
    ELSE file_lines

\* re.match(r'^\s*#', raw)
is_comment(raw) == lstrip(raw) # <<>> /\ Head(lstrip(raw)) = "#"

\* line.split('=', 1): the parts before and after the first '='
split_eq(line) ==
    LET i == CHOOSE k \in 1..Len(line) :
                 line[k] = "=" /\ \A j \in 1..(k - 1) : line[j] # "="
    IN  <<SubSeq(line, 1, i - 1), SubSeq(line, i + 1, Len(line))>>

\* a dict is the sequence of its items [key, val] in insertion order
dict_keys(d) == {d[k].key : k \in 1..Len(d)}

dict_get(d, key) == d[CHOOSE k \in 1..Len(d) : d[k].key = key].val

\* d[key] = val: a key already there keeps its place
dict_set(d, key, val) ==
    IF key \in dict_keys(d)
    THEN [k \in 1..Len(d) |-> IF d[k].key = key THEN [key |-> key, val |-> val] ELSE d[k]]
    ELSE Append(d, [key |-> key, val |-> val])

\* what the loop body does with one line: "skip" (comment or blank),
\* "malformed", or "entry" with its key and value
parse_line(raw) ==
    IF is_comment(raw) THEN [kind |-> "skip", key |-> <<>>, val |-> <<>>]
    ELSE IF strip(raw) = <<>> THEN [kind |-> "skip", key |-> <<>>, val |-> <<>>]
    ELSE IF ~contains(<<"=">>, strip(raw))
         THEN [kind |-> "malformed", key |-> <<>>, val |-> <<>>]
    ELSE LET parts == split_eq(strip(raw))
             key == strip(parts[1])
             val == strip(parts[2])
         IN  IF key = <<>> THEN [kind |-> "malformed", key |-> <<>>, val |-> <<>>]
             ELSE [kind |-> "entry", key |-> key, val |-> val]

\* the inverse test with a == b left out
inverses_distinct_only(d) ==
    {<<d[k].key, d[k].val>> : k \in {j \in 1..Len(d) :
        /\ d[j].val # d[j].key
        /\ d[j].val \in dict_keys(d)
        /\ dict_get(d, d[j].val) = d[j].key}}

\* config_loader.py:78-82: the items (a, b) with b a key that maps back to a
inverses(d) ==
    {<<d[k].key, d[k].val>> : k \in {j \in 1..Len(d) :
        /\ d[j].val \in dict_keys(d)
        /\ dict_get(d, d[j].val) = d[j].key}}

\* the lines configuration files are made of
ConfigLines ==
    {<<"a", "=", "b">>,
     <<"b", "=", "a">>,
     <<"a", "=", "c">>,
     <<" ", "a", " ", "=", "b", "\t">>,
     <<"a", "=", "a">>,
     <<"#", "a", "=", "c">>,
     <<" ", "#", "b">>,
     <<ZWSP, "#", "c", "=", "a">>,
     <<BOM, " ", "#", "b">>,
     <<>>,
     <<"a", "b">>,
     <<"=", "b">>}

ConfigFilesUpTo(n) ==
    UNION {[1..m -> ConfigLines] : m \in 1..n}

\* the file at config_path: missing, or text of one to MaxLines lines
ConfigFiles ==
    {NoConfig} \cup {[exists |-> TRUE, lines |-> l] : l \in ConfigFilesUpTo(MaxLines)}

\* load_replacements(config_path) about to run
InitLoad ==
    /\ pc = "load"
    /\ config_file \in ConfigFiles
    /\ idx = 1
    /\ replacements = <<>>
    /\ malformed = <<>>
    /\ duplicates = <<>>
    /\ ppt_file = <<>>
    /\ prs = <<>>
    /\ updated = FALSE
    /\ saved = FALSE
    /\ result = "none"
    /\ AddSlideIdle

\* config_loader.py:17-18
LoadMissing ==
    /\ pc = "load"
    /\ ~config_file.exists
    /\ result' = "FileNotFoundError"
    /\ pc' = "loaded"
    /\ UNCHANGED <<addSlideVars, config_file, idx, replacements, malformed, duplicates,
                   ppt_file, prs, updated, saved>>

\* config_loader.py:38-67: one turn of the loop over the lines
LoadLine ==
    /\ pc = "load"
    /\ config_file.exists
    /\ idx <= Len(config_file.lines)
    /\ LET raw == utf_8_sig(config_file.lines)[idx]
           parsed == parse_line(raw)
       IN  /\ malformed' = IF parsed.kind = "malformed" THEN Append(malformed, idx)
                           ELSE malformed
           /\ duplicates' =
                 IF /\ parsed.kind = "entry"
                    /\ parsed.key \in dict_keys(replacements)
                    /\ dict_get(replacements, parsed.key) # parsed.val
                 THEN Append(duplicates, <<idx, parsed.key>>)
                 ELSE duplicates
           /\ replacements' =
                 IF parsed.kind = "entry"
                 THEN dict_set(replacements, parsed.key, parsed.val)
                 ELSE replacements
    /\ idx' = idx + 1
    /\ UNCHANGED <<addSlideVars, pc, config_file, ppt_file, prs, updated, saved, result>>

\* config_loader.py:69-91: inverse pairs raise ValueError, else the mapping
\* is returned
LoadFinish ==
    /\ pc = "load"
    /\ config_file.exists
    /\ idx > Len(config_file.lines)
    /\ result' = IF inverses(replacements) # {} THEN "ValueError" ELSE "returned"
    /\ pc' = "loaded"
    /\ UNCHANGED <<addSlideVars, config_file, idx, replacements, malformed, duplicates,
                   ppt_file, prs, updated, saved>>

(***************************************************************************)
(* update_ppt_text (backend_Mass_Update/utils/ppt_processor.py).           *)
(***************************************************************************)
\* "".join(run.text for run in paragraph.runs)
RECURSIVE join(_)
join(runs) == IF runs = <<>> THEN <<>> ELSE Head(runs) \o join(Tail(runs))

\* re.compile(re.escape(old)).sub(new, s): leftmost non-overlapping
\* occurrences of the literal old (not empty) are replaced
RECURSIVE sub(_, _, _)
sub(old, new, s) ==
    IF Len(s) < Len(old) THEN s
    ELSE IF SubSeq(s, 1, Len(old)) = old
         THEN new \o sub(old, new, SubSeq(s, Len(old) + 1, Len(s)))
         ELSE <<Head(s)>> \o sub(old, new, Tail(s))

\* ppt_processor.py:27-29: the patterns applied one after the other, in the
\* mapping's order, from the i-th on
RECURSIVE apply_patterns(_, _, _)
apply_patterns(d, i, s) ==
    IF i > Len(d) THEN s
    ELSE apply_patterns(d, i + 1, sub(d[i].key, d[i].val, s))

\* process_paragraph that leaves the later runs as they were
process_paragraph_later_runs_kept(paragraph, d) ==
    LET original_text == join(paragraph.runs)
        new_text == apply_patterns(d, 1, original_text)
    IN  IF paragraph.runs = <<>> \/ new_text = original_text THEN paragraph
        ELSE [paragraph EXCEPT !.runs = [@ EXCEPT ![1] = new_text]]

\* ppt_processor.py:18-35: the paragraph as process_paragraph leaves it
process_paragraph(paragraph, d) ==
    LET original_text == join(paragraph.runs)
        new_text == apply_patterns(d, 1, original_text)
    IN  IF paragraph.runs = <<>> THEN paragraph
        ELSE IF ~\E k \in dict_keys(d) : contains(k, original_text) THEN paragraph
        ELSE IF new_text # original_text
             THEN [paragraph EXCEPT
                      !.runs = [r \in 1..Len(@) |-> IF r = 1 THEN new_text ELSE <<>>]]
             ELSE paragraph

\* the paragraphs decks are made of: of a text frame or of a table cell,
\* without runs, with a key split over two runs, with an empty run
Paragraphs ==
    {[where |-> "text_frame", runs |-> <<>>],
     [where |-> "text_frame", runs |-> <<<<"d">>, <<"a">>>>],
     [where |-> "table_cell", runs |-> <<<<"a">>, <<"b", "d">>>>],
     [where |-> "text_frame", runs |-> <<<<"d">>>>],
     [where |-> "table_cell", runs |-> <<<<"b">>, <<>>, <<"a", "b">>>>]}

Decks == UNION {[1..m -> Paragraphs] : m \in 0..MaxParagraphs}

\* the mappings handed to update_ppt_text, all of them mappings that
\* load_replacements returns: empty, one key lying across runs, a chain, a
\* cycle of three, a deletion
ReplacementDicts ==
    {<<>>,
     <<[key |-> <<"a", "b">>, val |-> <<"c">>]>>,
     <<[key |-> <<"a">>, val |-> <<"b">>], [key |-> <<"b">>, val |-> <<"c", "c">>]>>,
     <<[key |-> <<"a">>, val |-> <<"b">>], [key |-> <<"b">>, val |-> <<"c">>],
       [key |-> <<"c">>, val |-> <<"a">>]>>,
     <<[key |-> <<"d">>, val |-> <<>>]>>}

\* update_ppt_text(ppt_path, replacements) after prs = Presentation(ppt_path)
InitUpdate ==
    /\ pc = "update"
    /\ replacements \in ReplacementDicts
    /\ ppt_file \in Decks
    /\ prs = ppt_file
    /\ idx = 1
    /\ config_file = NoConfig
    /\ malformed = <<>>
    /\ duplicates = <<>>
    /\ updated = FALSE
    /\ saved = FALSE
    /\ result = "none"
    /\ AddSlideIdle

\* ppt_processor.py:37-51: the next paragraph, of a text frame or of a table
\* cell, goes through process_paragraph
ProcessParagraph ==
    /\ pc = "update"
    /\ idx <= Len(prs)
    /\ prs' = [prs EXCEPT ![idx] = process_paragraph(@, replacements)]
    /\ updated' = (updated \/ prs'[idx] # prs[idx])
    /\ idx' = idx + 1
    /\ UNCHANGED <<addSlideVars, pc, config_file, replacements, malformed, duplicates,
                   ppt_file, saved, result>>

\* ppt_processor.py:53-55: save when something was replaced, return updated
UpdateFinish ==
    /\ pc = "update"
    /\ idx > Len(prs)
    /\ saved' = updated
    /\ result' = "returned"
    /\ pc' = "updated"
    /\ UNCHANGED <<addSlideVars, config_file, idx, replacements, malformed, duplicates,
                   ppt_file, prs, updated>>

\* ppt_processor.py:54: prs.save raises and the exception leaves the function
UpdateSaveRaises ==
    /\ pc = "update"
    /\ idx > Len(prs)
    /\ updated
    /\ result' = "raised"
    /\ pc' = "updated"
    /\ UNCHANGED <<addSlideVars, config_file, idx, replacements, malformed, duplicates,
                   ppt_file, prs, updated, saved>>
Init == InitResolve \/ InitAddSlide \/ InitSizing \/ InitLoad \/ InitUpdate

Resolve ==
    /\ pc = "resolve"
    /\ slide_layout' = find_layout_by_type(slide_layouts, layout_type)
    /\ pc' = "resolved"
    /\ UNCHANGED <<massUpdateVars, slide_layouts, form_position, sldIdLst, layout_type, title, text, text2, image,
                   position, total_slides, new_slide, shapes, background, slides,
                   log, faults, response>>

(***************************************************************************)
(* add_slide (app.py:254-601), one action per step of the handler.         *)
(***************************************************************************)
MAX_FILE_SIZE == 50 * 1024 * 1024

MAX_IMAGE_SIZE == 10 * 1024 * 1024

ALLOWED_IMAGE_EXTENSIONS ==
    {<<"p", "n", "g">>, <<"j", "p", "g">>, <<"j", "p", "e", "g">>,
     <<"g", "i", "f">>, <<"b", "m", "p">>}

\* str.endswith
endswith(s, suffix) ==
    /\ Len(s) >= Len(suffix)
    /\ SubSeq(s, Len(s) - Len(suffix) + 1, Len(s)) = suffix

\* validate_image_format (app.py:63-68): filename.rsplit('.', 1)[1].lower()
validate_image_format(filename) ==
    IF \A k \in 1..Len(filename) : filename[k] # "."
    THEN FALSE
    ELSE LET dot == CHOOSE k \in 1..Len(filename) :
                        /\ filename[k] = "."
                        /\ \A m \in (k + 1)..Len(filename) : filename[m] # "."
             ext == lower(SubSeq(filename, dot + 1, Len(filename)))
         IN  ext \in ALLOWED_IMAGE_EXTENSIONS

\* validate_file_size (app.py:50-61): TRUE when it does not raise
validate_file_size(size, max_size) == ~(size > max_size)

\* request.files['file']: whether it is there, its name, its size, and
\* whether Presentation(file) can parse it
FileInputs ==
    {[present |-> FALSE, filename |-> <<>>, size |-> 0, parses |-> FALSE],
     [present |-> TRUE, filename |-> <<>>, size |-> 1024, parses |-> TRUE],
     [present |-> TRUE, filename |-> <<"d", ".", "p", "p", "t">>, size |-> 1024,
      parses |-> TRUE],
     [present |-> TRUE, filename |-> <<"d", ".", "p", "p", "t", "x">>,
      size |-> MAX_FILE_SIZE + 1, parses |-> TRUE],
     [present |-> TRUE, filename |-> <<"d", ".", "p", "p", "t", "x">>, size |-> 1024,
      parses |-> FALSE],
     [present |-> TRUE, filename |-> <<"d", ".", "p", "p", "t", "x">>, size |-> 1024,
      parses |-> TRUE]}

\* request.files.get('image'): none, a 4:3 image, a 1:2 image, a disallowed
\* extension, no extension, an oversized image (width, height: native size)
ImageInputs ==
    {NoImage,
     [filename |-> <<"a", ".", "P", "N", "G">>, size |-> 2048, width |-> 4, height |-> 3],
     [filename |-> <<"a", ".", "j", "p", "g">>, size |-> 2048, width |-> 1, height |-> 2],
     [filename |-> <<"a", ".", "t", "x", "t">>, size |-> 2048, width |-> 4, height |-> 3],
     [filename |-> <<"p", "n", "g">>, size |-> 2048, width |-> 4, height |-> 3],
     [filename |-> <<"a", ".", "p", "n", "g">>, size |-> MAX_IMAGE_SIZE + 1,
      width |-> 4, height |-> 3]}

\* request.form: the 'layout' key (taken as already stripped), the raw
\* 'title', 'text' and 'text2' fields, and 'position' (isint: int() accepts it).
\* A second text is only sent along with the two-content type.
FormInputs ==
    {f \in [layout : LayoutTypes \cup {"", "unknown"},
            title : {<<>>, <<" ", "T">>},
            text : {<<>>, <<" ">>, <<"A", " ">>},
            text2 : {<<>>, <<"B">>},
            isint : BOOLEAN,
            position : -1..(MaxSlides + 1)] :
        /\ (f.text2 # <<>> => f.layout = "title_two_content")
        /\ (~f.isint => f.position = 0)}

\* bool(image): werkzeug's FileStorage is true when it has a filename
image_given(img) == img.filename # <<>>

Error(status, message) == [status |-> status, error |-> message, file |-> FALSE]

\* lines 256-316 decide whether the request is rejected, and with what
validation_error(file, form, img) ==
    IF ~file.present THEN "No PowerPoint file uploaded"
    ELSE IF file.filename = <<>> THEN "No file selected"
    ELSE IF ~endswith(file.filename, <<".", "p", "p", "t", "x">>)
         THEN "File must be a .pptx PowerPoint file"
    ELSE IF ~validate_file_size(file.size, MAX_FILE_SIZE) THEN "PowerPoint file too large"
    ELSE IF form.layout = "" \/ form.layout \notin DOMAIN PREDEFINED_LAYOUTS
         THEN "Valid layout type is required"
    ELSE IF PREDEFINED_LAYOUTS[form.layout].content_boxes > 0 /\ strip(form.text) = <<>>
         THEN "Content text is required for this layout"
    ELSE IF PREDEFINED_LAYOUTS[form.layout].content_boxes = 2 /\ strip(form.text2) = <<>>
         THEN "Second content box is required for this layout"
    ELSE IF image_given(img) /\ ~validate_image_format(img.filename)
         THEN "Invalid image format"
    ELSE IF image_given(img) /\ ~validate_file_size(img.size, MAX_IMAGE_SIZE)
         THEN "Image too large"
    ELSE IF form.isint /\ form.position < 0 THEN "Position cannot be negative"
    ELSE IF ~form.isint THEN "Position must be a valid number"
    ELSE IF ~file.parses THEN "Invalid or corrupted PowerPoint file"
    ELSE ""

\* app.py:256-316: validate the upload and the form, load the presentation
Validate ==
    /\ pc = "start"
    /\ \E file \in FileInputs, form \in FormInputs, img \in ImageInputs :
         LET err == validation_error(file, form, img) IN
         IF err # ""
         THEN /\ response' = Error(400, err)
              /\ pc' = "done"
              /\ UNCHANGED <<layout_type, title, text, text2, image, position,
                             form_position>>
         ELSE /\ layout_type' = form.layout
              /\ form_position' = form.position
              /\ title' = strip(form.title)
              /\ text' = strip(form.text)
              /\ text2' = strip(form.text2)
              /\ image' = img
              /\ position' = form.position
              /\ pc' = "find_layout"
              /\ UNCHANGED response
    /\ UNCHANGED <<massUpdateVars, slide_layouts, sldIdLst, slide_layout, total_slides, new_slide,
                   shapes, background, slides, log, faults>>

\* app.py:318-327: resolve the layout
FindLayout ==
    /\ pc = "find_layout"
    /\ IF Len(slide_layouts) = 0
       THEN /\ response' = Error(400, "Presentation has no slide layouts")
            /\ pc' = "done"
            /\ UNCHANGED slide_layout
       ELSE LET found == find_layout_by_type(slide_layouts, layout_type) IN
            /\ slide_layout' = found
            /\ IF found = 0
               THEN /\ response' = Error(400, "Could not find suitable layout")
                    /\ pc' = "done"
               ELSE /\ pc' = "create"
                    /\ UNCHANGED response
    /\ UNCHANGED <<massUpdateVars, slide_layouts, form_position, sldIdLst, layout_type, title, text, text2, image,
                   position, total_slides, new_slide, shapes, background, slides, log, faults>>

\* the shape a slide gets for one placeholder of its layout
clone_placeholder(ph) ==
    [kind |-> "placeholder", type |-> ph.type, text |-> <<>>,
     left |-> ph.left, top |-> ph.top, width |-> ph.width, height |-> ph.height]

\* app.py:337-345: clamp the position, then prs.slides.add_slide(slide_layout)
\* appends a slide made from the layout
CreateSlide ==
    /\ pc = "create"
    /\ total_slides' = Len(sldIdLst)
    /\ position' = IF position < 0 THEN 0
                   ELSE IF position > Len(sldIdLst) THEN Len(sldIdLst)
                   ELSE position
    /\ new_slide' = Len(sldIdLst) + 1
    /\ sldIdLst' = Append(sldIdLst, Len(sldIdLst) + 1)
    /\ shapes' = [k \in 1..Len(slide_layouts[slide_layout].placeholders) |->
                     clone_placeholder(slide_layouts[slide_layout].placeholders[k])]
    /\ pc' = "background"
    /\ UNCHANGED <<massUpdateVars, slide_layouts, form_position, layout_type, title, text, text2, image,
                   slide_layout, background, slides, log, faults, response>>

\* app.py:347-355: white background, best effort.  A raise may come before
\* or after fill.solid() took effect.
SetBackground ==
    /\ pc = "background"
    /\ \/ /\ background' = "white"
          /\ UNCHANGED <<log, faults>>
       \/ /\ faults < MaxFaults
          /\ background' \in {"inherited", "solid"}
          /\ log' = log \cup {"! Could not modify background"}
          /\ faults' = faults + 1
    /\ pc' = "reposition"
    /\ UNCHANGED <<massUpdateVars, slide_layouts, form_position, sldIdLst, layout_type, title, text, text2, image,
                   position, slide_layout, total_slides, new_slide, shapes, slides,
                   response>>

\* insert that puts x one place too far back
insert_after(lst, index, x) ==
    LET at == IF index + 1 > Len(lst) THEN Len(lst) ELSE index + 1
    IN  SubSeq(lst, 1, at) \o <<x>> \o SubSeq(lst, at + 1, Len(lst))

\* list.insert(index, x) for index >= 0
insert(lst, index, x) ==
    LET at == IF index > Len(lst) THEN Len(lst) ELSE index
    IN  SubSeq(lst, 1, at) \o <<x>> \o SubSeq(lst, at + 1, Len(lst))

Min(a, b) == IF a < b THEN a ELSE b

\* app.py:358: the slide is already last when position >= total_slides
RepositionSkip ==
    /\ pc = "reposition"
    /\ ~(position < total_slides)
    /\ pc' = "title"
    /\ UNCHANGED <<massUpdateVars, slide_layouts, form_position, sldIdLst, layout_type, title, text, text2, image,
                   position, slide_layout, total_slides, new_slide, shapes,
                   background, slides, log, faults, response>>

\* app.py:361-370: copy the id list, move its last entry to insert_pos, and
\* clear the deck's list
RepositionClear ==
    /\ pc = "reposition"
    /\ position < total_slides
    /\ IF Len(sldIdLst) > 0
       THEN LET popped == SubSeq(sldIdLst, 1, Len(sldIdLst) - 1)
                moved_slide == sldIdLst[Len(sldIdLst)]
                insert_pos == Min(position, Len(popped))
            IN  /\ slides' = insert(popped, insert_pos, moved_slide)
                /\ sldIdLst' = <<>>
                /\ pc' = "reposition_append"
                /\ UNCHANGED log
       ELSE /\ log' = log \cup {"! No slides to reposition"}
            /\ pc' = "title"
            /\ UNCHANGED <<slides, sldIdLst>>
    /\ UNCHANGED <<massUpdateVars, slide_layouts, form_position, layout_type, title, text, text2, image, position,
                   slide_layout, total_slides, new_slide, shapes, background,
                   faults, response>>

\* app.py:371-373: one xml_slides.append(slide) of the rebuilding loop
RepositionAppend ==
    /\ pc = "reposition_append"
    /\ Len(sldIdLst) < Len(slides)
    /\ sldIdLst' = Append(sldIdLst, slides[Len(sldIdLst) + 1])
    /\ pc' = IF Len(sldIdLst) + 1 = Len(slides) THEN "title" ELSE "reposition_append"
    /\ UNCHANGED <<massUpdateVars, slide_layouts, form_position, layout_type, title, text, text2, image, position,
                   slide_layout, total_slides, new_slide, shapes, background, slides,
                   log, faults, response>>

\* app.py:376-380: a raise anywhere in the try block (before the list is
\* cleared, or between two appends) is printed and composition goes on
RepositionRaises ==
    /\ pc \in {"reposition", "reposition_append"}
    /\ pc = "reposition" => position < total_slides
    /\ faults < MaxFaults
    /\ faults' = faults + 1
    /\ \E message \in IF pc = "reposition"
                      THEN {"! Slide positioning not supported", "! Could not reposition slide"}
                      ELSE {"! Could not reposition slide"} :
          log' = log \cup {message}
    /\ pc' = "title"
    /\ UNCHANGED <<massUpdateVars, slide_layouts, form_position, sldIdLst, layout_type, title, text, text2, image,
                   position, slide_layout, total_slides, new_slide, shapes,
                   background, slides, response>>

IsPlaceholder(shape) == shape.kind = "placeholder"

\* new_slide.shapes.title: index of the title placeholder, 0 for None
shapes_title(shs) ==
    IF \E k \in 1..Len(shs) : IsPlaceholder(shs[k]) /\ shs[k].type = "TITLE"
    THEN CHOOSE k \in 1..Len(shs) :
            /\ IsPlaceholder(shs[k]) /\ shs[k].type = "TITLE"
            /\ \A m \in 1..(k - 1) : ~(IsPlaceholder(shs[m]) /\ shs[m].type = "TITLE")
    ELSE 0

\* app.py:382-391: the title goes into the title placeholder, if there is one
SetTitle ==
    /\ pc = "title"
    /\ IF title # <<>>
       THEN \/ /\ shapes' = IF shapes_title(shapes) # 0
                            THEN [shapes EXCEPT ![shapes_title(shapes)].text = title]
                            ELSE shapes
               /\ UNCHANGED <<log, faults>>
            \/ /\ faults < MaxFaults
               /\ faults' = faults + 1
               /\ log' = log \cup {"! Could not set title"}
               /\ UNCHANGED shapes
       ELSE UNCHANGED <<shapes, log, faults>>
    /\ pc' = "body"
    /\ UNCHANGED <<massUpdateVars, slide_layouts, form_position, sldIdLst, layout_type, title, text, text2, image,
                   position, slide_layout, total_slides, new_slide, background,
                   slides, response>>

(***************************************************************************)
(* Body content (app.py:393-510).                                          *)
(***************************************************************************)
\* app.py:396-403: the BODY/OBJECT placeholders of the slide, in slide order
\* (a placeholder whose format cannot be read is skipped)
RECURSIVE content_placeholders(_, _)
content_placeholders(shs, i) ==
    IF i > Len(shs) THEN <<>>
    ELSE IF IsPlaceholder(shs[i]) /\ shs[i].type \in BodyTypes
         THEN <<i>> \o content_placeholders(shs, i + 1)
         ELSE content_placeholders(shs, i + 1)

\* Textbox whose paragraph text is never set
Textbox_without_text(txt, left, top, width, height) ==
    [kind |-> "textbox", type |-> "NONE", text |-> <<>>,
     left |-> Inches(left), top |-> Inches(top),
     width |-> Inches(width), height |-> Inches(height)]

Textbox(txt, left, top, width, height) ==
    [kind |-> "textbox", type |-> "NONE", text |-> txt,
     left |-> Inches(left), top |-> Inches(top),
     width |-> Inches(width), height |-> Inches(height)]

TwoContentMode == layout_type = "title_two_content" /\ text # <<>> /\ text2 # <<>>

\* two_placeholders with the two texts written the wrong way round
two_placeholders_swapped(shs, t1, t2, at) ==
    LET cp == content_placeholders(shs, 1)
        first == [shs EXCEPT ![cp[1]].text = t2]
        both == [first EXCEPT ![cp[2]].text = t1]
    IN  CASE at = "raise_before_first" -> shs
          [] at = "raise_after_first" -> first
          [] OTHER -> both

\* app.py:405-422: the first two content placeholders get text and text2.
\* at: how far the try block got before a call raised
two_placeholders(shs, t1, t2, at) ==
    LET cp == content_placeholders(shs, 1)
        first == [shs EXCEPT ![cp[1]].text = t1]
        both == [first EXCEPT ![cp[2]].text = t2]
    IN  CASE at = "raise_before_first" -> shs
          [] at = "raise_after_first" -> first
          [] at = "raise_after_second" -> both
          [] OTHER -> both

SetTwoContentPlaceholders ==
    /\ pc = "body"
    /\ TwoContentMode
    /\ Len(content_placeholders(shapes, 1)) >= 2
    /\ \E at \in {"ok", "raise_before_first", "raise_after_first", "raise_after_second"} :
         /\ shapes' = two_placeholders(shapes, text, text2, at)
         /\ IF at = "ok"
            THEN UNCHANGED <<log, faults>>
            ELSE /\ faults < MaxFaults
                 /\ faults' = faults + 1
                 /\ log' = log \cup {"! Error setting two-content"}
    /\ pc' = "image"
    /\ UNCHANGED <<massUpdateVars, slide_layouts, form_position, sldIdLst, layout_type, title, text, text2, image,
                   position, slide_layout, total_slides, new_slide, background,
                   slides, response>>

\* two_textboxes with the right box given the left box's geometry
two_textboxes_stacked(shs, t1, t2, at) ==
    LET left_box == Textbox(t1, 5, 18, 42, 50)
        right_box == Textbox(t2, 5, 18, 42, 50)
    IN  CASE at = "raise_before_first" -> shs
          [] at = "raise_after_first" -> Append(shs, left_box)
          [] OTHER -> Append(Append(shs, left_box), right_box)

\* app.py:423-441: fewer than two content placeholders: two textboxes side by side
two_textboxes(shs, t1, t2, at) ==
    LET left_box == Textbox(t1, 5, 18, 42, 50)
        right_box == Textbox(t2, 52, 18, 42, 50)
    IN  CASE at = "raise_before_first" -> shs
          [] at = "raise_after_first" -> Append(shs, left_box)
          [] OTHER -> Append(Append(shs, left_box), right_box)

SetTwoContentTextboxes ==
    /\ pc = "body"
    /\ TwoContentMode
    /\ Len(content_placeholders(shapes, 1)) < 2
    /\ \E at \in {"ok", "raise_before_first", "raise_after_first"} :
         /\ shapes' = two_textboxes(shapes, text, text2, at)
         /\ IF at = "ok"
            THEN UNCHANGED <<log, faults>>
            ELSE /\ faults < MaxFaults
                 /\ faults' = faults + 1
                 /\ log' = log \cup {"! Error creating two textboxes"}
    /\ pc' = "image"
    /\ UNCHANGED <<massUpdateVars, slide_layouts, form_position, sldIdLst, layout_type, title, text, text2, image,
                   position, slide_layout, total_slides, new_slide, background,
                   slides, response>>

\* app.py:448-484: scan the placeholders; the first BODY/OBJECT placeholder
\* whose try block runs through gets the text and ends the scan.  outcome[k]
\* says how the try block of placeholder k ends: "ok", "raise_before_write"
\* (text_frame or clear() raised) or "raise_after_write" (p.text is set and a
\* later formatting call raised).  Result: the shapes, content_added, the
\* number of raises, and whether an except branch printed.
RECURSIVE single_content_scan(_, _, _, _, _, _)
single_content_scan(shs, txt, outcome, i, raised, printed) ==
    IF i > Len(shs)
    THEN [shapes |-> shs, content_added |-> FALSE, raised |-> raised, printed |-> printed]
    ELSE IF ~IsPlaceholder(shs[i])
         THEN single_content_scan(shs, txt, outcome, i + 1, raised, printed)
    ELSE IF shs[i].type = "UNREADABLE"
         THEN single_content_scan(shs, txt, outcome, i + 1, raised, TRUE)
    ELSE IF shs[i].type \notin BodyTypes
         THEN single_content_scan(shs, txt, outcome, i + 1, raised, printed)
    ELSE IF outcome[i] = "ok"
         THEN [shapes |-> [shs EXCEPT ![i].text = txt], content_added |-> TRUE,
               raised |-> raised, printed |-> printed]
    ELSE IF outcome[i] = "raise_after_write"
         THEN single_content_scan([shs EXCEPT ![i].text = txt], txt, outcome, i + 1,
                                  raised + 1, TRUE)
    ELSE single_content_scan(shs, txt, outcome, i + 1, raised + 1, TRUE)

\* app.py:443-510: single content box: a placeholder, else one full-width
\* textbox; when the textbox cannot be made either, ValueError ends the request
SetSingleContent ==
    /\ pc = "body"
    /\ ~TwoContentMode
    /\ text # <<>>
    /\ \E outcome \in [{k \in 1..Len(shapes) : shapes[k].type \in BodyTypes} ->
                          {"ok", "raise_before_write", "raise_after_write"}],
          textbox \in {"ok", "raise_before_add", "raise_after_add"} :
         LET scan == single_content_scan(shapes, text, outcome, 1, 0, FALSE)
             box_raised == IF ~scan.content_added /\ textbox # "ok" THEN 1 ELSE 0
             scan_log == IF scan.printed
                         THEN log \cup {"! Error setting placeholder content"}
                         ELSE log
         IN  /\ faults + scan.raised + box_raised <= MaxFaults
             /\ faults' = faults + scan.raised + box_raised
             /\ IF scan.content_added
                THEN /\ shapes' = scan.shapes
                     /\ log' = scan_log
                     /\ pc' = "image"
                     /\ UNCHANGED response
                ELSE IF textbox = "ok"
                THEN /\ shapes' = Append(scan.shapes, Textbox(text, 5, 18, 90, 50))
                     /\ log' = scan_log
                     /\ pc' = "image"
                     /\ UNCHANGED response
                ELSE /\ shapes' = IF textbox = "raise_after_add"
                                  THEN Append(scan.shapes, Textbox(<<>>, 5, 18, 90, 50))
                                  ELSE scan.shapes
                     /\ log' = scan_log \cup {"! Error creating textbox"}
                     /\ response' = Error(400, "Could not add content to slide")
                     /\ pc' = "done"
    /\ UNCHANGED <<massUpdateVars, slide_layouts, form_position, sldIdLst, layout_type, title, text, text2, image,
                   position, slide_layout, total_slides, new_slide, background, slides>>

\* neither branch of app.py:394/443 applies: no body text
SetNoContent ==
    /\ pc = "body"
    /\ ~TwoContentMode
    /\ text = <<>>
    /\ pc' = "image"
    /\ UNCHANGED <<massUpdateVars, slide_layouts, form_position, sldIdLst, layout_type, title, text, text2, image,
                   position, slide_layout, total_slides, new_slide, shapes,
                   background, slides, log, faults, response>>

(***************************************************************************)
(* Image (app.py:512-570).                                                 *)
(***************************************************************************)
Picture(left, top, width, height) ==
    [kind |-> "picture", type |-> "NONE", text |-> <<>>,
     left |-> left, top |-> top, width |-> width, height |-> height]

\* remove_at that leaves the element in place
remove_at_forgotten(lst, k) == lst

\* the sequence without its k-th element: sp.getparent().remove(sp)
remove_at(lst, k) == SubSeq(lst, 1, k - 1) \o SubSeq(lst, k + 1, Len(lst))

\* app.py:517-543: scan the placeholders the slide had when the scan began
\* (phs, in order); for a PICTURE placeholder take its geometry, remove it and
\* add the picture there.  outcome[k]: "ok", "raise_before_remove" (reading
\* the image or the geometry raised) or "raise_after_remove" (add_picture
\* raised).  cur is the shape tree so far, gone the number of shapes removed
\* from it so far.
RECURSIVE picture_scan(_, _, _, _, _, _)
picture_scan(phs, cur, outcome, i, gone, raised) ==
    IF i > Len(phs)
    THEN [shapes |-> cur, image_added |-> FALSE, raised |-> raised]
    ELSE IF ~(IsPlaceholder(phs[i]) /\ phs[i].type = "PICTURE")
         THEN picture_scan(phs, cur, outcome, i + 1, gone, raised)
    ELSE IF outcome[i] = "raise_before_remove"
         THEN picture_scan(phs, cur, outcome, i + 1, gone, raised + 1)
    ELSE IF outcome[i] = "raise_after_remove"
         THEN picture_scan(phs, remove_at(cur, i - gone), outcome, i + 1, gone + 1,
                           raised + 1)
    ELSE [shapes |-> Append(remove_at(cur, i - gone),
                            Picture(phs[i].left, phs[i].top, phs[i].width, phs[i].height)),
          image_added |-> TRUE, raised |-> raised]

\* floor(a * b / c) for a, b >= 0 and c > 0 without forming a * b:
\* [q, r] with a * b = q * c + r and 0 <= r < c, by doubling over b
RECURSIVE muldivmod(_, _, _)
muldivmod(a, b, c) ==
    IF b = 0 THEN [q |-> 0, r |-> 0]
    ELSE LET half == muldivmod(a, b \div 2, c)
             q2 == 2 * half.q + (2 * half.r) \div c
             r2 == (2 * half.r) % c
             r3 == IF b % 2 = 1 THEN r2 + (a % c) ELSE r2
             q3 == IF b % 2 = 1 THEN q2 + (a \div c) ELSE q2
         IN  [q |-> q3 + (r3 \div c), r |-> r3 % c]

muldiv(a, b, c) == muldivmod(a, b, c).q

\* add_picture(image_stream, left, top, height=max_height): the library scales
\* the width by the image's native proportions, int(round(w * (height / h))),
\* where round takes a tie to the even neighbour
scaled_width(img, height) ==
    LET q == (2 * img.width * height) \div (2 * img.height)
        r == (2 * img.width * height) % (2 * img.height)
    IN  IF r < img.height THEN q
        ELSE IF r > img.height THEN q + 1
        ELSE IF q % 2 = 0 THEN q ELSE q + 1

\* the width cap left out: the picture keeps max_height whatever its width
fallback_picture_uncapped(img) ==
    {[kind |-> "picture", type |-> "NONE", text |-> <<>>,
      left |-> Inches(65), top |-> Inches(15),
      width |-> scaled_width(img, Inches(50)), height |-> Inches(50)]}

\* int(max_width * (pic.height / pic.width)) in double arithmetic: the floor
\* of the exact quotient, except that when the quotient is a whole number the
\* rounded division can leave the product just below it, and int() then
\* gives one less (108 x 127 gives 3225799 for 3225800)
capped_heights(max_width, pic_height, pic_width) ==
    LET d == muldivmod(max_width, pic_height, pic_width)
    IN  IF d.r = 0 /\ d.q > 0 THEN {d.q - 1, d.q} ELSE {d.q}

\* app.py:545-566: the pictures the right-side insertion can leave: height
\* max_height, and when that makes it wider than max_width, width max_width
\* and height int(max_width * (pic.height / pic.width))
fallback_picture(img) ==
    LET left == Inches(65)
        top == Inches(15)
        max_height == Inches(50)
        max_width == Inches(30)
        pic_width == scaled_width(img, max_height)
    IN  IF pic_width > max_width
        THEN {Picture(left, top, max_width, h) :
                 h \in capped_heights(max_width, max_height, pic_width)}
        ELSE {Picture(left, top, pic_width, max_height)}

\* app.py:512-570: the image replaces a picture placeholder, else goes to the
\* right side; no failure here ends the request
AddImage ==
    /\ pc = "image"
    /\ image_given(image)
    /\ \E outcome \in [{k \in 1..Len(shapes) : shapes[k].type = "PICTURE"} ->
                          {"ok", "raise_before_remove", "raise_after_remove"}],
          fallback \in {"ok", "raise"},
          pic \in fallback_picture(image) :
         LET scan == picture_scan(shapes, shapes, outcome, 1, 0, 0)
             fallback_raised == IF ~scan.image_added /\ fallback # "ok" THEN 1 ELSE 0
             scan_log == IF scan.raised > 0
                         THEN log \cup {"! Could not use picture placeholder"}
                         ELSE log
         IN  /\ faults + scan.raised + fallback_raised <= MaxFaults
             /\ faults' = faults + scan.raised + fallback_raised
             /\ IF scan.image_added
                THEN /\ shapes' = scan.shapes
                     /\ log' = scan_log
                ELSE IF fallback = "ok"
                THEN /\ shapes' = Append(scan.shapes, pic)
                     /\ log' = scan_log
                ELSE /\ shapes' = scan.shapes
                     /\ log' = scan_log \cup {"! Image error"}
    /\ pc' = "save"
    /\ UNCHANGED <<massUpdateVars, slide_layouts, form_position, sldIdLst, layout_type, title, text, text2, image,
                   position, slide_layout, total_slides, new_slide, background,
                   slides, response>>

\* app.py:545-566 run on its own: an image of any native size is put on the
\* right side of a slide without shapes
AddFallbackPicture ==
    /\ pc = "sizing"
    /\ \E pic \in fallback_picture(image) : shapes' = <<pic>>
    /\ pc' = "sized"
    /\ UNCHANGED <<massUpdateVars, slide_layouts, form_position, sldIdLst, layout_type, title, text, text2, image,
                   position, slide_layout, total_slides, new_slide, background,
                   slides, log, faults, response>>

\* app.py:513: no image was sent
SkipImage ==
    /\ pc = "image"
    /\ ~image_given(image)
    /\ pc' = "save"
    /\ UNCHANGED <<massUpdateVars, slide_layouts, form_position, sldIdLst, layout_type, title, text, text2, image,
                   position, slide_layout, total_slides, new_slide, shapes,
                   background, slides, log, faults, response>>

\* app.py:574-592: save the presentation and send it; a failing save is a 500
Save ==
    /\ pc = "save"
    /\ \/ /\ response' = [status |-> 200, error |-> "", file |-> TRUE]
          /\ UNCHANGED faults
       \/ /\ faults < MaxFaults
          /\ faults' = faults + 1
          /\ response' = Error(500, "Failed to save presentation")
    /\ pc' = "done"
    /\ UNCHANGED <<massUpdateVars, slide_layouts, form_position, sldIdLst, layout_type, title, text, text2, image,
                   position, slide_layout, total_slides, new_slide, shapes,
                   background, slides, log>>

Next ==
    \/ Resolve
    \/ Validate
    \/ FindLayout
    \/ CreateSlide
    \/ SetBackground
    \/ RepositionSkip
    \/ RepositionClear
    \/ RepositionAppend
    \/ RepositionRaises
    \/ SetTitle
    \/ SetTwoContentPlaceholders
    \/ SetTwoContentTextboxes
    \/ SetSingleContent
    \/ SetNoContent
    \/ AddImage
    \/ AddFallbackPicture
    \/ SkipImage
    \/ Save
    \/ LoadMissing
    \/ LoadLine
    \/ LoadFinish
    \/ ProcessParagraph
    \/ UpdateFinish
    \/ UpdateSaveRaises

Spec == Init /\ [][Next]_vars

(***************************************************************************)
(* Properties of find_layout_by_type.                                      *)
(***************************************************************************)
\* find_layout_by_type has just returned: called directly, or from add_slide
\* (the layouts and the returned layout do not change afterwards)
MatcherRan ==
    \/ pc = "resolved"
    \/ pc = "create"
    \/ response.error = "Could not find suitable layout"

NonExcluded(layouts) ==
    {k \in 1..Len(layouts) : ~is_excluded(lower(layouts[k].name))}

\* the non-excluded layouts whose lower-cased name is the type's display name
ExactNamed(layouts, type) ==
    {k \in NonExcluded(layouts) : lower(layouts[k].name) = lower(PREDEFINED_LAYOUTS[type].name)}

\* the non-excluded layouts whose name holds at least one keyword of the type
KeywordNamed(layouts, type) ==
    {k \in NonExcluded(layouts) :
        \E w \in 1..Len(PREDEFINED_LAYOUTS[type].keywords) :
            contains(PREDEFINED_LAYOUTS[type].keywords[w], lower(layouts[k].name))}

\* the structural composition each type asks for
Qualifies(type, layout) ==
    CASE type = "title_content" ->
           has_title(layout) /\ body_count(layout) >= 1 /\ ~has_picture(layout)
      [] type = "title_two_content" -> has_title(layout) /\ body_count(layout) >= 2
      [] type = "title_image_content" ->
           has_title(layout) /\ body_count(layout) >= 1 /\ has_picture(layout)
      [] type = "title_image" -> has_title(layout) /\ has_picture(layout)
      [] OTHER -> FALSE

\* C1: find_layout_by_type never returns a layout whose lower-cased name
\* contains an excluded pattern, in any tier, the generic fallback and the
\* index-1 / index-0 last resort included.
C1_NeverReturnsExcluded ==
    (MatcherRan /\ slide_layout # 0)
        => ~is_excluded(lower(slide_layouts[slide_layout].name))

\* C2: whenever the template has a non-excluded layout named like the type's
\* display name, the first such layout in stored order is returned, whatever
\* the other layouts would score in the later tiers; with 'Title and Content'
\* and 'Mango Cover' and type title_content, 'Title and Content' is returned.
C2_ExactNamePrecedence ==
    (MatcherRan /\ layout_type \in LayoutTypes)
        => /\ ExactNamed(slide_layouts, layout_type) # {}
              => /\ slide_layout \in ExactNamed(slide_layouts, layout_type)
                 /\ \A k \in ExactNamed(slide_layouts, layout_type) : slide_layout <= k
           /\ ( /\ layout_type = "title_content"
                /\ slide_layouts \in {<<L_TitleAndContent, L_MangoCover>>,
                                      <<L_MangoCover, L_TitleAndContent>>} )
              => slide_layouts[slide_layout] = L_TitleAndContent

\* an exact name wins although an earlier layout scores as high on keywords
C2_Witness ==
    /\ pc = "resolved"
    /\ layout_type = "title_content"
    /\ slide_layouts = <<L_TitleAndTwoContent, L_TitleAndContent>>
    /\ slide_layout = 2

\* C3 as claimed, counting only the layouts the tiers look at (the
\* non-excluded ones): when none of them matches by exact name or keyword and
\* one of them has the composition the type asks for, the returned layout has
\* that composition and no qualifying layout has fewer placeholders.
C3_FewestAmongAllQualifiers ==
    ( /\ MatcherRan
      /\ layout_type \in LayoutTypes
      /\ ExactNamed(slide_layouts, layout_type) = {}
      /\ KeywordNamed(slide_layouts, layout_type) = {}
      /\ \E k \in NonExcluded(slide_layouts) : Qualifies(layout_type, slide_layouts[k]) )
        => /\ slide_layout \in NonExcluded(slide_layouts)
           /\ Qualifies(layout_type, slide_layouts[slide_layout])
           /\ \A k \in NonExcluded(slide_layouts) :
                 Qualifies(layout_type, slide_layouts[k])
                     => placeholder_count(slide_layouts[slide_layout])
                            <= placeholder_count(slide_layouts[k])

\* the structural tier decides: tiers 1 and 2 find nothing among the
\* non-excluded layouts and one of them has a positive structural score
StructuralTierDecides ==
    /\ MatcherRan
    /\ layout_type \in LayoutTypes
    /\ ExactNamed(slide_layouts, layout_type) = {}
    /\ KeywordNamed(slide_layouts, layout_type) = {}
    /\ \E k \in NonExcluded(slide_layouts) : structure_score(layout_type, slide_layouts[k]) > 0

\* C3 (amended): when the structural tier decides, the returned layout is the
\* first non-excluded layout with the highest structural score; for
\* title_content, title_two_content and title_image_content it is a
\* qualifying layout with the fewest placeholders among the non-excluded
\* qualifiers, while for title_image the score (200 - count without body
\* placeholders, 50 - count with them) decides: the count is least only
\* among the qualifiers that, like the returned layout, have or lack body
\* placeholders.
C3_StructuralTier ==
    StructuralTierDecides
        => /\ slide_layout \in NonExcluded(slide_layouts)
           /\ Qualifies(layout_type, slide_layouts[slide_layout])
           /\ \A k \in NonExcluded(slide_layouts) :
                 /\ structure_score(layout_type, slide_layouts[k])
                        <= structure_score(layout_type, slide_layouts[slide_layout])
                 /\ structure_score(layout_type, slide_layouts[k])
                        = structure_score(layout_type, slide_layouts[slide_layout])
                    => slide_layout <= k
           /\ layout_type # "title_image"
              => \A k \in NonExcluded(slide_layouts) :
                    Qualifies(layout_type, slide_layouts[k])
                        => placeholder_count(slide_layouts[slide_layout])
                               <= placeholder_count(slide_layouts[k])
           /\ layout_type = "title_image"
              => \A k \in NonExcluded(slide_layouts) :
                    ( /\ Qualifies(layout_type, slide_layouts[k])
                      /\ (body_count(slide_layouts[k]) = 0)
                             <=> (body_count(slide_layouts[slide_layout]) = 0) )
                        => placeholder_count(slide_layouts[slide_layout])
                               <= placeholder_count(slide_layouts[k])

\* two opaque-named layouts qualify for title_content and the one with fewer
\* placeholders, stored second, is returned
C3_Witness ==
    /\ pc = "resolved"
    /\ layout_type = "title_content"
    /\ slide_layouts = <<L_Layout3, L_Comparison>>
    /\ StructuralTierDecides
    /\ slide_layout = 2

\* the state is one of a request to /api/add-slide
InAddSlide ==
    pc \in {"start", "find_layout", "create", "background", "reposition",
            "reposition_append", "title", "body", "image", "save", "done"}

\* C4: for a known type, None is returned only for an empty layout
\* collection and some layout is returned whenever one exists; a request
\* against a template with no layouts ends in an error, with no slide added.
C4_NoneOnlyWhenEmpty ==
    /\ (MatcherRan /\ layout_type \in LayoutTypes)
          => (slide_layout = 0 <=> Len(slide_layouts) = 0)
    /\ (InAddSlide /\ Len(slide_layouts) = 0)
          => /\ new_slide = 0
             /\ sldIdLst = [k \in 1..Len(sldIdLst) |-> k]
             /\ ~response.file
             /\ pc \in {"start", "find_layout", "done"}
             /\ pc = "done" => response.status = 400

\* a valid request against a template without layouts is refused
C4_Witness ==
    /\ pc = "done"
    /\ layout_type \in LayoutTypes
    /\ Len(slide_layouts) = 0
    /\ Len(sldIdLst) = MaxSlides
    /\ response = Error(400, "Presentation has no slide layouts")

(***************************************************************************)
(* Properties of add_slide.                                                *)
(***************************************************************************)
\* the reposition try block printed a failure
RepositionRaised ==
    log \cap {"! Could not reposition slide", "! Slide positioning not supported"} # {}

\* the body step is over / the image step is over
BodyStepDone == new_slide # 0 /\ pc \in {"image", "save", "done"}

ImageStepDone ==
    new_slide # 0 /\ (pc = "save" \/ (pc = "done" /\ response.status \in {200, 500}))

Carried(t) == \E k \in 1..Len(shapes) : shapes[k].text = t

ShapesOfKind(kind) == {k \in 1..Len(shapes) : shapes[k].kind = kind}

\* the number of content items the caller supplied
SuppliedItems ==
    (IF title # <<>> THEN 1 ELSE 0) + (IF text # <<>> THEN 1 ELSE 0)
        + (IF TwoContentMode THEN 1 ELSE 0) + (IF image_given(image) THEN 1 ELSE 0)

\* the placeholders of the chosen layout, and the shapes they are cloned to
LayoutPlaceholders == slide_layouts[slide_layout].placeholders

RECURSIVE SelectSeq2(_, _)
SelectSeq2(seq, types) ==
    IF seq = <<>> THEN <<>>
    ELSE IF Head(seq).type \in types
         THEN <<Head(seq)>> \o SelectSeq2(Tail(seq), types)
         ELSE SelectSeq2(Tail(seq), types)

\* the placeholder shapes of the slide whose type is in types, in slide order
SlidePlaceholders(types) ==
    SelectSeq2([k \in 1..Len(shapes) |->
                   IF IsPlaceholder(shapes[k]) THEN shapes[k]
                   ELSE [shapes[k] EXCEPT !.type = "NONE"]], types)

\* the clones of the layout's placeholders whose type is in types
ClonedPlaceholders(types) ==
    SelectSeq2([k \in 1..Len(LayoutPlaceholders) |-> clone_placeholder(LayoutPlaceholders[k])],
               types)

\* C5: a successful add_slide (a document is returned and the reposition
\* step did not raise) on a deck of n slides, for a position >= 0, leaves
\* n + 1 slides with the new slide at index min(position, n).
C5_NewSlideAtClampedPosition ==
    (response.file /\ ~RepositionRaised)
        => /\ form_position >= 0
           /\ Len(sldIdLst) = total_slides + 1
           /\ sldIdLst[Min(form_position, total_slides) + 1] = new_slide
           /\ Cardinality({k \in 1..Len(sldIdLst) : sldIdLst[k] = new_slide}) = 1

\* the new slide of a returned deck was moved into the middle
C5_Witness ==
    /\ response.file
    /\ ~RepositionRaised
    /\ total_slides = 2
    /\ form_position = 1
    /\ sldIdLst = <<1, 3, 2>>

C7_BodyTextNeverLost ==
    response.file
        => /\ text # <<>> => Carried(text)
           /\ (TwoContentMode /\ text2 # <<>>) => Carried(text2)

\* C8: in two-content mode on a slide with two (or more) BODY/OBJECT
\* placeholders no textbox is synthesized, and the step, when it does not
\* raise, leaves text 1 in the first such placeholder in slide order and
\* text 2 in the second.
C8_TwoContentIntoPlaceholders ==
    (BodyStepDone /\ TwoContentMode /\ Len(content_placeholders(shapes, 1)) >= 2)
        => /\ ShapesOfKind("textbox") = {}
           /\ "! Error setting two-content" \notin log
              => /\ shapes[content_placeholders(shapes, 1)[1]].text = text
                 /\ shapes[content_placeholders(shapes, 1)[2]].text = text2

\* a returned two-content slide with distinct texts in its two placeholders
C8_Witness ==
    /\ response.file
    /\ TwoContentMode
    /\ text # text2
    /\ Len(content_placeholders(shapes, 1)) = 2
    /\ shapes[content_placeholders(shapes, 1)[1]].text = text
    /\ shapes[content_placeholders(shapes, 1)[2]].text = text2
    /\ ShapesOfKind("textbox") = {}

\* C9: in two-content mode on a slide with zero or one BODY/OBJECT
\* placeholder the step, when it does not raise, synthesizes exactly two
\* textboxes whose horizontal extents do not overlap, the left one with
\* text 1 and the right one with text 2, and the slide's body placeholders
\* stay as they were cloned (same count, no text).
C9_TwoContentIntoTextboxes ==
    ( /\ BodyStepDone
      /\ TwoContentMode
      /\ Len(content_placeholders(shapes, 1)) < 2
      /\ "! Error creating two textboxes" \notin log )
        => /\ Cardinality(ShapesOfKind("textbox")) = 2
           /\ \E l, r \in ShapesOfKind("textbox") :
                 /\ shapes[l].left + shapes[l].width <= shapes[r].left
                 /\ shapes[l].text = text
                 /\ shapes[r].text = text2
           /\ SlidePlaceholders(BodyTypes) = ClonedPlaceholders(BodyTypes)

\* a returned two-content slide made from a layout with one body placeholder
C9_Witness ==
    /\ response.file
    /\ TwoContentMode
    /\ Len(content_placeholders(shapes, 1)) = 1
    /\ Cardinality(ShapesOfKind("textbox")) = 2
    /\ Carried(text) /\ Carried(text2)

\* C10: when an image is sent and the slide has a PICTURE placeholder, the
\* substitution, when it does not raise, removes that (first) placeholder and
\* adds one picture with the placeholder's left, top, width and height; no
\* right-side fallback picture is added.
C10_ImageReplacesPlaceholder ==
    ( /\ ImageStepDone
      /\ image_given(image)
      /\ has_picture(slide_layouts[slide_layout])
      /\ "! Could not use picture placeholder" \notin log )
        => LET removed == ClonedPlaceholders({"PICTURE"})[1] IN
           /\ SlidePlaceholders({"PICTURE"}) = Tail(ClonedPlaceholders({"PICTURE"}))
           /\ Cardinality(ShapesOfKind("picture")) = 1
           /\ \A k \in ShapesOfKind("picture") :
                 /\ shapes[k].left = removed.left
                 /\ shapes[k].top = removed.top
                 /\ shapes[k].width = removed.width
                 /\ shapes[k].height = removed.height
                 /\ ~(shapes[k].left = Inches(65) /\ shapes[k].top = Inches(15))

\* a returned slide made from a layout with two picture placeholders: the
\* first is replaced by the picture, the second is still there
C10_Witness ==
    /\ response.file
    /\ image_given(image)
    /\ "! Could not use picture placeholder" \notin log
    /\ Len(ClonedPlaceholders({"PICTURE"})) = 2
    /\ Len(SlidePlaceholders({"PICTURE"})) = 1
    /\ Cardinality(ShapesOfKind("picture")) = 1

\* the pictures of the slide that sit at the right-side fallback position
FallbackPictures ==
    {k \in ShapesOfKind("picture") :
        shapes[k].left = Inches(65) /\ shapes[k].top = Inches(15)}

\* the image step ran without a picture placeholder to use and the
\* right-side insertion did not raise
FallbackInserted ==
    \/ pc = "sized"
    \/ /\ ImageStepDone
       /\ image_given(image)
       /\ ~has_picture(slide_layouts[slide_layout])
       /\ "! Image error" \notin log

\* C11: an image inserted without a usable PICTURE placeholder is one picture
\* of height <= 5 in and width <= 3 in, whatever the image's proportions; when
\* the width is capped (at 5 in high it would be wider than 3 in) the width is
\* 3 in and the height is 3 in times the image's height/width ratio, to within
\* one EMU of the truncated value; otherwise the height is 5 in.
C11_FallbackImageWithinBounds ==
    /\ FallbackInserted => Cardinality(FallbackPictures) = 1
    /\ \A k \in FallbackPictures :
          /\ shapes[k].height <= Inches(50)
          /\ shapes[k].width <= Inches(30)
          /\ shapes[k].height >= 0 /\ shapes[k].width >= 0
          /\ IF scaled_width(image, Inches(50)) > Inches(30)
             THEN /\ shapes[k].width = Inches(30)
                  /\ shapes[k].height
                        >= muldiv(Inches(30), image.height, image.width) - 1
                  /\ shapes[k].height
                        <= muldiv(Inches(30), image.height, image.width) + 1
             ELSE /\ shapes[k].height = Inches(50)
                  /\ shapes[k].width = scaled_width(image, Inches(50))

\* a wide image (7 x 3) was capped to 3 in wide and rescaled to 9/7 in high
C11_Witness ==
    /\ pc = "sized"
    /\ image.width = 7 /\ image.height = 3
    /\ \E k \in FallbackPictures :
          /\ shapes[k].width = Inches(30)
          /\ shapes[k].height = 1175657

\* the deck before the request, and the slide step of add_slide is over
DeckBefore == [k \in 1..total_slides |-> k]

AfterReposition == new_slide # 0 /\ pc \in {"title", "body", "image", "save", "done"}

\* C16: whatever happens in the reposition step, a failure part-way through
\* it included, the deck's slide order afterwards is either the fully
\* reordered one (all n + 1 slides, the new one at the target index) or the
\* untouched one with the new slide last; the id list is never left with
\* slides missing.
C16_RepositionAtomic ==
    AfterReposition
        => \/ sldIdLst = Append(DeckBefore, new_slide)
           \/ sldIdLst = insert(DeckBefore, Min(position, total_slides), new_slide)

\* the number of the type's keywords found in the layout's lower-cased name
KeywordHits(type, layout) ==
    Cardinality({w \in 1..Len(PREDEFINED_LAYOUTS[type].keywords) :
                    contains(PREDEFINED_LAYOUTS[type].keywords[w], lower(layout.name))})

\* C17: when no non-excluded layout has the type's display name and some
\* non-excluded layout's name holds a keyword of the type, the returned layout
\* is a non-excluded layout with the highest number of keyword hits, the
\* first such layout in stored order, whatever the layouts' placeholders are.
C17_KeywordTier ==
    ( /\ MatcherRan
      /\ layout_type \in LayoutTypes
      /\ ExactNamed(slide_layouts, layout_type) = {}
      /\ KeywordNamed(slide_layouts, layout_type) # {} )
        => /\ slide_layout \in NonExcluded(slide_layouts)
           /\ KeywordHits(layout_type, slide_layouts[slide_layout]) > 0
           /\ \A k \in NonExcluded(slide_layouts) :
                 /\ KeywordHits(layout_type, slide_layouts[k])
                        <= KeywordHits(layout_type, slide_layouts[slide_layout])
                 /\ KeywordHits(layout_type, slide_layouts[k])
                        = KeywordHits(layout_type, slide_layouts[slide_layout])
                    => slide_layout <= k

\* for title_image, 'Blank' (keyword blank, no placeholder at all) is returned
\* although 'Custom Layout' before it has the title and picture asked for
C17_Witness ==
    /\ pc = "resolved"
    /\ layout_type = "title_image"
    /\ slide_layouts = <<L_Custom, L_Blank>>
    /\ Qualifies(layout_type, slide_layouts[1])
    /\ slide_layout = 2

\* the layouts with a TITLE and at least one BODY/OBJECT placeholder
TitleAndBody(layouts) ==
    {k \in 1..Len(layouts) : has_title(layouts[k]) /\ body_count(layouts[k]) >= 1}

\* tiers 1-3 yield no candidate
TiersYieldNothing ==
    /\ MatcherRan
    /\ layout_type \in LayoutTypes
    /\ ExactNamed(slide_layouts, layout_type) = {}
    /\ KeywordNamed(slide_layouts, layout_type) = {}
    /\ \A k \in NonExcluded(slide_layouts) :
          structure_score(layout_type, slide_layouts[k]) <= 0

C19_BodyTextInExactlyOneShape ==
    ( /\ BodyStepDone
      /\ ~TwoContentMode
      /\ text # <<>>
      /\ response.error # "Could not add content to slide" )
        => /\ Cardinality({k \in 1..Len(shapes) : shapes[k].text = text}) = 1
           /\ \A k \in 1..Len(shapes) :
                 shapes[k].text = text
                     => \/ shapes[k].kind = "textbox"
                        \/ IsPlaceholder(shapes[k]) /\ shapes[k].type \in BodyTypes

\* a best-effort sub-step (background, reposition, picture placeholder,
\* fallback image) printed a failure
BestEffortFailed ==
    log \cap {"! Could not modify background", "! Could not reposition slide",
              "! Slide positioning not supported", "! Could not use picture placeholder",
              "! Image error"} # {}

\* C20: a failure of the background fill, the reposition, the picture
\* placeholder substitution or the fallback image insertion does not abort
\* add_slide: the request ends with the document or with the error of the
\* body step or of the save, and a returned document contains the new slide.
C20_BestEffortSubSteps ==
    (pc = "done" /\ new_slide # 0 /\ BestEffortFailed)
        => /\ \/ response.file
              \/ response.error \in {"Could not add content to slide",
                                     "Failed to save presentation"}
           /\ response.file
                 => Cardinality({k \in 1..Len(sldIdLst) : sldIdLst[k] = new_slide}) = 1

\* the deck's slide order without the slide the request created
IsOldSlide(id) == id # new_slide

OldSlides == SelectSeq(sldIdLst, IsOldSlide)

\* C21: in every document add_slide returns, the slides the deck had before
\* the call are all there, each once and in their former order, and the new
\* slide is there once: the slide order is the old one with the new slide
\* inserted.
C21_OldSlidesKeepOrder ==
    response.file
        => /\ OldSlides = DeckBefore
           /\ Len(sldIdLst) = total_slides + 1

(***************************************************************************)
(* Properties of load_replacements.                                        *)
(***************************************************************************)
\* the lines of the configuration as the loop sees them
DecodedLines == utf_8_sig(config_file.lines)

\* the numbers of the lines that hold an entry key=value
EntryLines ==
    {i \in 1..Len(DecodedLines) : parse_line(DecodedLines[i]).kind = "entry"}

EntryKeys == {parse_line(DecodedLines[i]).key : i \in EntryLines}

\* the value on the last line that holds key
LastValue(key) ==
    LET last == CHOOSE i \in EntryLines :
                    /\ parse_line(DecodedLines[i]).key = key
                    /\ \A j \in EntryLines :
                          parse_line(DecodedLines[j]).key = key => j <= i
    IN  parse_line(DecodedLines[last]).val

\* load_replacements returned its mapping
Loaded == pc = "loaded" /\ result = "returned"

\* C12 as claimed: when load_replacements returns, a key that appears on more
\* than one line maps to the value of its last line, and a duplicate-key
\* warning was printed for every such key.
C12_DuplicateKeysWarnLastWins ==
    Loaded
        => \A i, j \in EntryLines :
              (i < j /\ parse_line(DecodedLines[i]).key = parse_line(DecodedLines[j]).key)
                  => LET key == parse_line(DecodedLines[i]).key IN
                     /\ dict_get(replacements, key) = LastValue(key)
                     /\ \E w \in 1..Len(duplicates) : duplicates[w][2] = key

\* the characters line 40 of the loader lists as invisible before a '#'
Invisible == {BOM, ZWSP, " ", "\t"}

RECURSIVE visible_part(_)
visible_part(raw) ==
    IF raw # <<>> /\ Head(raw) \in Invisible THEN visible_part(Tail(raw)) ELSE raw

\* the first visible character of the line is '#'
HiddenComment(raw) == visible_part(raw) # <<>> /\ Head(visible_part(raw)) = "#"

\* C13 as claimed: a line whose first visible character is '#', also after a
\* BOM, zero-width characters, spaces or tabs, and on any line of the file, is
\* never reported as malformed and never becomes an entry of the mapping.
C13_HiddenCommentsIgnored ==
    (pc \in {"load", "loaded"} /\ config_file.exists)
        => /\ \A w \in 1..Len(malformed) :
                 ~HiddenComment(config_file.lines[malformed[w]])
           /\ \A key \in dict_keys(replacements) : ~HiddenComment(key)

\* C14 as claimed: a configuration that holds both a line A=B and a line
\* B=A, for different strings A and B, is rejected, and a configuration of entry lines only in which no
\* line is the inverse of a line (of another one or of itself) is accepted
\* and its mapping returned.
C14_InverseLinesRejected ==
    (pc = "loaded" /\ config_file.exists)
        => LET Inverse(i, j) ==
                   /\ parse_line(DecodedLines[i]).key = parse_line(DecodedLines[j]).val
                   /\ parse_line(DecodedLines[i]).val = parse_line(DecodedLines[j]).key
           IN  /\ (\E i, j \in EntryLines :
                      /\ parse_line(DecodedLines[i]).key # parse_line(DecodedLines[i]).val
                      /\ Inverse(i, j))
                     => result = "ValueError"
               /\ ( /\ EntryLines = 1..Len(DecodedLines)
                    /\ ~\E i, j \in EntryLines : Inverse(i, j) )
                     => result = "returned"

\* C14 (amended): the test is made on the mapping the lines produce, where
\* the last line of a key wins: the configuration is rejected with ValueError
\* exactly when that mapping has keys A and B with A -> B and B -> A (A and B
\* may be the same string), and otherwise the mapping is returned.
C14_InverseMappingsRejected ==
    (pc = "loaded" /\ config_file.exists)
        => /\ result = "ValueError"
                 <=> \E a, b \in EntryKeys : LastValue(a) = b /\ LastValue(b) = a
           /\ result \in {"ValueError", "returned"}
           /\ dict_keys(replacements) = EntryKeys
           /\ \A key \in EntryKeys : dict_get(replacements, key) = LastValue(key)

\* the configuration a=b, b=a was rejected
C14_Witness ==
    /\ pc = "loaded"
    /\ DecodedLines = <<<<"a", "=", "b">>, <<"b", "=", "a">>>>
    /\ result = "ValueError"

(***************************************************************************)
(* Properties of update_ppt_text.                                          *)
(***************************************************************************)
\* the paragraphs process_paragraph has been called on
Processed == IF pc \in {"update", "updated"} THEN 1..(idx - 1) ELSE {}

\* the text of paragraph k of the file, and that text with the replacements
\* applied
OriginalText(k) == join(ppt_file[k].runs)

ReplacedText(k) == apply_patterns(replacements, 1, OriginalText(k))

\* all of the text sits in the first run, the later runs are empty
InFirstRun(paragraph, txt) ==
    /\ paragraph.runs # <<>>
    /\ paragraph.runs[1] = txt
    /\ \A r \in 2..Len(paragraph.runs) : paragraph.runs[r] = <<>>

\* C15 as claimed: every processed paragraph whose text contains a key keeps
\* its number of runs, has the whole replaced text in its first run and
\* only empty runs after it; a paragraph without a key is as it was.
C15_EveryKeyedParagraphRewritten ==
    \A k \in Processed :
        IF \E key \in dict_keys(replacements) : contains(key, OriginalText(k))
        THEN /\ Len(prs[k].runs) = Len(ppt_file[k].runs)
             /\ InFirstRun(prs[k], ReplacedText(k))
        ELSE prs[k] = ppt_file[k]

\* C15 (amended): a processed paragraph whose replaced text differs from its
\* text keeps its number of runs, has the whole replaced text in its first
\* run and only empty runs after it; every other paragraph, also one that
\* contains a key which the replacements map back to the same text, is as it
\* was; the function returns True, and has saved the file, exactly when the
\* text of some paragraph changed.
C15_ChangedParagraphsRewritten ==
    /\ \A k \in Processed :
          /\ Len(prs[k].runs) = Len(ppt_file[k].runs)
          /\ prs[k].where = ppt_file[k].where
          /\ IF ReplacedText(k) # OriginalText(k)
             THEN InFirstRun(prs[k], ReplacedText(k)) /\ join(prs[k].runs) = ReplacedText(k)
             ELSE prs[k] = ppt_file[k]
    /\ (pc = "update") => \A k \in idx..Len(prs) : prs[k] = ppt_file[k]
    /\ (pc = "updated" /\ result = "returned")
          => /\ updated <=> \E k \in 1..Len(prs) : join(prs[k].runs) # OriginalText(k)
             /\ saved <=> updated

\* a key lying across two runs of a table-cell paragraph was replaced: the
\* first run holds the new text, the second is empty, and True was returned
C15_Witness ==
    /\ pc = "updated"
    /\ result = "returned"
    /\ updated /\ saved
    /\ replacements = <<[key |-> <<"a", "b">>, val |-> <<"c">>]>>
    /\ \E k \in 1..Len(prs) :
          /\ ppt_file[k].runs = <<<<"a">>, <<"b", "d">>>>
          /\ prs[k].runs = <<<<"c", "d">>, <<>>>>

====
